---- MODULE Spec2Model ----
(***************************************************************************)
(* Model of src/main.py: a FastAPI messaging backend over three PostgreSQL *)
(* tables (users, tokens, messages).  Clients authenticate with a codeword *)
(* to obtain a bearer token and then post and read broadcast and direct    *)
(* messages.                                                               *)
(*                                                                         *)
(* Time is counted in days (timedelta(days=1) is one unit).  Optional      *)
(* values (Python None / SQL NULL) are sequences: <<>> is None/NULL and    *)
(* <<v>> is the value v.  secrets.token_hex(16) is modelled as a draw of a *)
(* token that is not yet a key of the tokens table.                        *)
(***************************************************************************)
EXTENDS Integers, Sequences, FiniteSets, TLC

\* ---------------------------------------------------------------- bounds
MaxTime == 2
MaxMsgs == 2
MaxAuthMsgs == 1
MaxEntries == 2
MaxPool == 1

\* ------------------------------------------------------------- constants
TokenTTL == 1
DefaultLimit == 100
DefaultFromId == 0
\* asyncpg.create_pool(DATABASE_URL) without max_size: ten connections.
DefaultPoolSize == 10

None == <<>>
Some(v) == <<v>>

Clients == {"c1", "c2"}
Usernames == {"alice", "bob", "carol"}
Codewords == {"x", "y", "z"}
TokenIds == {"t1", "t2"}
UnknownToken == "t0"

\* Authorization header values: absent, empty, or "<scheme><credentials>".
Headers ==
  {None, Some([scheme |-> "", cred |-> ""])}
    \cup {Some([scheme |-> s, cred |-> t]) :
            s \in {"Bearer ", "Token "}, t \in TokenIds \cup {UnknownToken}}

\* USERS configurations the process is started with (DEFAULT_USERS_JSON).
\* An entry is a JSON object; a key that is absent is None.
Entry(u, c, h) == [username |-> u, codeword |-> c, is_human |-> h]
ConfigA ==
  << Entry(Some("alice"), Some("x"), None),
     Entry(Some("bob"), Some("y"), Some(FALSE)) >>
ConfigB ==
  << Entry(Some("alice"), Some("z"), Some(FALSE)),
     Entry(Some("bob"), Some("y"), Some(FALSE)) >>
Configs == {ConfigA, ConfigB}

\* users, tokens, messages: the three tables.  seq: the last value handed out
\* by the sequence behind messages.message_id (SERIAL).  now: the wall clock.
\* pc: each client's request in flight (the token of its Authorization header,
\* the username verify_token returned, the row its INSERT is writing).
\* resp: the response the last step sent.
\* issued: history of what each successful POST /auth call was asked for and
\* answered (it is never read by an operation).
\* DEFAULT_USERS_JSON: the USERS list the running process was started with.
\* pool: app.state.pool, its size and the connections each client's request
\* has checked out.
VARIABLES users, tokens, messages, seq, now, pc, resp, issued,
          DEFAULT_USERS_JSON, pool

vars == <<users, tokens, messages, seq, now, pc, resp, issued,
          DEFAULT_USERS_JSON, pool>>

\* ------------------------------------------------------------- helpers
Idle == [state |-> "idle", token |-> "", auth_user |-> "", row |-> None]

\* resp holds the response the last step sent; NoResponse when it sent none.
Response(op, status, body) == [op |-> op, status |-> status, body |-> body]
NoResponse == Response("", 0, None)

Min(a, b) == IF a < b THEN a ELSE b

Range(s) == {s[i] : i \in 1..Len(s)}

\* ------------------------------------------------------------ app.state.pool
\* asyncpg.create_pool: a pool of n connections, all of them free; out[c]
\* counts the connections the request of client c has checked out.
create_pool(n) == [size |-> n, free |-> n, out |-> [c \in Clients |-> 0]]

\* pool.acquire() returns once a connection is free; until then the request
\* waits.
CanAcquire == pool.free > 0
Acquired(c) == [pool EXCEPT !.free = @ - 1, !.out[c] = @ + 1]

\* Faulty variant: the connection is given back only when the block returns
\* (acquire and release written out without try/finally).
ReleasedOnReturn(p, c, raised) ==
  IF raised THEN p ELSE [p EXCEPT !.free = @ + 1, !.out[c] = @ - 1]
\* The exit of `async with app.state.pool.acquire() as conn:`; it runs when
\* the block returns and when it raises.
Released(p, c, raised) == [p EXCEPT !.free = @ + 1, !.out[c] = @ - 1]

\* ----------------------------------------------------- lifespan (bootstrap)
\* Faulty variant: an existing row is overwritten with the entry's codeword
\* and is_human.
UpsertUserOverwriting(us, username, codeword, is_human) ==
  [u \in DOMAIN us \cup {username} |->
     IF u = username
       THEN [codeword |-> codeword, is_human |-> is_human]
       ELSE us[u]]
\* The loop body for one well-formed entry: SELECT, then UPDATE or INSERT.
UpsertUser(us, username, codeword, is_human) ==
  IF username \in DOMAIN us
    THEN IF us[username].codeword # codeword
           THEN [us EXCEPT ![username].codeword = codeword]
           ELSE us
    ELSE [u \in DOMAIN us \cup {username} |->
            IF u = username
              THEN [codeword |-> codeword, is_human |-> is_human]
              ELSE us[u]]

\* entry["username"] / entry["codeword"] raise KeyError when the key is absent.
EntryRaises(entry) == entry.username = None \/ entry.codeword = None

\* The for loop inside the try block, from entry i on: an exception leaves
\* the loop (the except clause is outside it); statements already executed
\* stay committed.
RECURSIVE BootstrapFrom(_, _, _)
BootstrapFrom(us, cfg, i) ==
  IF i > Len(cfg) THEN us
  ELSE IF EntryRaises(cfg[i]) THEN us
  ELSE BootstrapFrom(
         UpsertUser(us, cfg[i].username[1], cfg[i].codeword[1],
                    IF cfg[i].is_human = None THEN TRUE ELSE cfg[i].is_human[1]),
         cfg, i + 1)

EmptyUsers == [u \in {} |-> [codeword |-> "", is_human |-> TRUE]]
EmptyTokens == [t \in {} |-> [username |-> "", expires |-> 0]]
EmptyIssued == [t \in {} |-> [username |-> "", at |-> 0, expires |-> 0]]

Init ==
  /\ users = BootstrapFrom(EmptyUsers, ConfigA, 1)
  /\ tokens = EmptyTokens
  /\ messages = <<>>
  /\ seq = 0
  /\ now = 0
  /\ pc = [c \in Clients |-> Idle]
  /\ resp = NoResponse
  /\ issued = EmptyIssued
  /\ DEFAULT_USERS_JSON = ConfigA
  /\ pool = create_pool(DefaultPoolSize)

\* Faulty variant: a restart whose bootstrap changes a user's codeword
\* deletes that user's tokens.
lifespan_revoking(cfg) ==
  /\ \A c \in Clients : pc[c].state = "idle"
  /\ DEFAULT_USERS_JSON' = cfg
  /\ pool' = create_pool(pool.size)
  /\ users' = BootstrapFrom(users, cfg, 1)
  /\ tokens' =
       [t \in {s \in DOMAIN tokens :
                 users'[tokens[s].username].codeword = users[tokens[s].username].codeword}
          |-> tokens[t]]
  /\ resp' = NoResponse
  /\ UNCHANGED <<messages, seq, now, pc, issued>>
\* Process (re)start with USERS = cfg: a new pool is created, the tables
\* persist, the user list is upserted.
lifespan(cfg) ==
  /\ \A c \in Clients : pc[c].state = "idle"
  /\ DEFAULT_USERS_JSON' = cfg
  /\ pool' = create_pool(pool.size)
  /\ users' = BootstrapFrom(users, cfg, 1)
  /\ resp' = NoResponse
  /\ UNCHANGED <<tokens, messages, seq, now, pc, issued>>

\* The wall clock advances.
Tick ==
  /\ now < MaxTime
  /\ now' = now + 1
  /\ resp' = NoResponse
  /\ UNCHANGED <<users, tokens, messages, seq, pc, issued, DEFAULT_USERS_JSON, pool>>

\* ------------------------------------------------------------ verify_token
\* Faulty variant: only the absence of the header is checked.
HeaderRejectedIfAbsent(authorization) == authorization = None
\* not authorization or not authorization.startswith("Bearer ")
HeaderRejected(authorization) ==
  \/ authorization = None
  \/ authorization[1].scheme = "" /\ authorization[1].cred = ""
  \/ authorization[1].scheme # "Bearer "

\* Faulty variant: the comparison reversed.
TokenExpiredReversed(expires, t) == expires > t
\* row["expires"] < datetime.now(timezone.utc)
TokenExpired(expires, t) == expires < t

\* not row or row["expires"] < now
TokenRejected(token, t) ==
  \/ token \notin DOMAIN tokens
  \/ TokenExpired(tokens[token].expires, t)

\* Faulty variant: the SELECT without its WHERE clause (some row of the table).
TokenOwnerOfAnyRow(token) == tokens[CHOOSE t \in DOMAIN tokens : TRUE].username
\* The username the dependency returns for an accepted token.
TokenOwner(token) == tokens[token].username

\* The Depends(verify_token) step of a protected request of client c.  The
\* dependency does not read the route, so the route the request is for is
\* drawn when its handler runs.
verify_token(c, authorization) ==
  /\ pc[c].state = "idle"
  /\ IF HeaderRejected(authorization)
       THEN /\ resp' = Response("verify_token", 401,
                                Some("Missing or invalid Authorization header"))
            /\ UNCHANGED <<pc, pool>>
       ELSE /\ CanAcquire
            /\ IF TokenRejected(authorization[1].cred, now)
                 THEN /\ resp' = Response("verify_token", 401,
                                          Some("Invalid or expired token"))
                      /\ pool' = Released(Acquired(c), c, TRUE)
                      /\ UNCHANGED pc
                 ELSE /\ pc' = [pc EXCEPT ![c] =
                                  [state |-> "verified", token |-> authorization[1].cred,
                                   auth_user |-> TokenOwner(authorization[1].cred),
                                   row |-> None]]
                      /\ pool' = Released(Acquired(c), c, FALSE)
                      /\ resp' = NoResponse
  /\ UNCHANGED <<users, tokens, messages, seq, now, issued, DEFAULT_USERS_JSON>>

\* ------------------------------------------------------------ authenticate
\* Faulty variant: the codeword is not compared.
CredentialsRejectedIfUnknown(username, codeword) == username \notin DOMAIN users
\* not user or user["codeword"] != req.codeword
CredentialsRejected(username, codeword) ==
  \/ username \notin DOMAIN users
  \/ users[username].codeword # codeword

\* datetime.now(timezone.utc) + timedelta(days=1)
Expiry(t) == t + TokenTTL

\* Faulty variant: a user holds one token; issuing deletes the user's others.
InsertTokenReplacing(token, username, expires) ==
  [t \in {s \in DOMAIN tokens : tokens[s].username # username} \cup {token} |->
     IF t = token THEN [username |-> username, expires |-> expires] ELSE tokens[t]]
\* INSERT INTO tokens (token, username, expires)
InsertToken(token, username, expires) ==
  [t \in DOMAIN tokens \cup {token} |->
     IF t = token THEN [username |-> username, expires |-> expires] ELSE tokens[t]]

\* POST /auth/{username}; token is the value secrets.token_hex(16) draws.
authenticate(c, username, codeword) ==
  /\ pc[c].state = "idle"
  /\ CanAcquire
  /\ IF CredentialsRejected(username, codeword)
       THEN /\ resp' = Response("authenticate", 403, Some("Invalid codeword"))
            /\ pool' = Released(Acquired(c), c, TRUE)
            /\ UNCHANGED <<tokens, issued>>
       ELSE \E token \in TokenIds \ DOMAIN tokens :
              /\ tokens' = InsertToken(token, username, Expiry(now))
              /\ pool' = Released(Acquired(c), c, FALSE)
              /\ resp' = Response("authenticate", 200,
                                  Some([token |-> token, expires |-> Expiry(now)]))
              /\ issued' = [t \in DOMAIN issued \cup {token} |->
                              IF t = token
                                THEN [username |-> username, at |-> now,
                                      expires |-> Expiry(now)]
                                ELSE issued[t]]
  /\ UNCHANGED <<users, messages, seq, now, pc, DEFAULT_USERS_JSON>>

\* ----------------------------------------------------------- message store
Row(id, reply_id, from_username, reply_to_username, message, datetime) ==
  [message_id |-> id, reply_to_message_id |-> reply_id,
   from_username |-> from_username, reply_to_username |-> reply_to_username,
   message |-> message, datetime |-> datetime]

\* Faulty variant: the id computed from the rows that are visible (count + 1).
NextValFromRows == Len(messages) + 1
\* nextval of the sequence behind message_id SERIAL.
NextVal == seq + 1

\* The INSERT of one row by a verified send request: the FOREIGN KEY on
\* from_username is checked, the sequence hands out the id, and the row is
\* written; it becomes visible to other connections at Commit.
InsertMessage(c, op, reply_to_username, msg) ==
  IF pc[c].auth_user \notin DOMAIN users
    THEN /\ resp' = Response(op, 500, None)
         /\ pc' = [pc EXCEPT ![c] = Idle]
         /\ pool' = Released(Acquired(c), c, TRUE)
         /\ UNCHANGED seq
    ELSE /\ seq' = NextVal
         /\ pool' = Acquired(c)
         /\ pc' = [pc EXCEPT ![c].state = "inserting",
                             ![c].row = Some(Row(NextVal, msg.reply_to_message_id,
                                                 pc[c].auth_user, reply_to_username,
                                                 msg.message, now))]
         /\ resp' = NoResponse

\* POST /participants
send_broadcast(c, msg) ==
  /\ pc[c].state = "verified"
  /\ CanAcquire
  /\ InsertMessage(c, "send_broadcast", None, msg)
  /\ UNCHANGED <<users, tokens, messages, now, issued, DEFAULT_USERS_JSON>>

\* POST /participants/{to_user}
send_direct(c, to_user, msg) ==
  /\ pc[c].state = "verified"
  /\ CanAcquire
  /\ InsertMessage(c, "send_direct", Some(to_user), msg)
  /\ UNCHANGED <<users, tokens, messages, now, issued, DEFAULT_USERS_JSON>>

\* Faulty variant: the write is an upsert keyed on the sender; it replaces the
\* sender's earlier row.
CommitReplacingSenderRow(c) ==
  /\ pc[c].state = "inserting"
  /\ messages' =
       Append(SelectSeq(messages,
                        LAMBDA m : m.from_username # pc[c].row[1].from_username),
              pc[c].row[1])
  /\ resp' = Response("send", 200, Some("ok"))
  /\ pc' = [pc EXCEPT ![c] = Idle]
  /\ pool' = Released(pool, c, FALSE)
  /\ UNCHANGED <<users, tokens, seq, now, issued, DEFAULT_USERS_JSON>>
\* The INSERT's implicit transaction commits: the row is visible, the handler
\* returns {"status": "ok"} and leaves its `async with` block.
Commit(c) ==
  /\ pc[c].state = "inserting"
  /\ messages' = Append(messages, pc[c].row[1])
  /\ resp' = Response("send", 200, Some("ok"))
  /\ pc' = [pc EXCEPT ![c] = Idle]
  /\ pool' = Released(pool, c, FALSE)
  /\ UNCHANGED <<users, tokens, seq, now, issued, DEFAULT_USERS_JSON>>

\* Faulty variant: the join is on the recipient (u.username =
\* m.reply_to_username).
JoinedOnRecipient ==
  {[message_id |-> m.message_id, reply_to_message_id |-> m.reply_to_message_id,
    from_username |-> m.from_username,
    from_is_human |-> users[m.reply_to_username[1]].is_human,
    reply_to_username |-> m.reply_to_username, message |-> m.message,
    datetime |-> m.datetime] :
     m \in {r \in Range(messages) :
              r.reply_to_username # None /\ r.reply_to_username[1] \in DOMAIN users}}
\* FROM messages m JOIN users u ON u.username = m.from_username, with the
\* selected columns.
Joined ==
  {[message_id |-> m.message_id, reply_to_message_id |-> m.reply_to_message_id,
    from_username |-> m.from_username,
    from_is_human |-> users[m.from_username].is_human,
    reply_to_username |-> m.reply_to_username, message |-> m.message,
    datetime |-> m.datetime] :
     m \in {r \in Range(messages) : r.from_username \in DOMAIN users}}

\* ORDER BY m.message_id ASC (message_id is the PRIMARY KEY: no two rows
\* share one): the k-th row is the one with k - 1 rows of smaller message_id.
OrderById(rows) ==
  [k \in 1..Cardinality(rows) |->
     CHOOSE r \in rows :
       Cardinality({q \in rows : q.message_id < r.message_id}) = k - 1]

\* LIMIT n (n >= 0)
Limit(s, n) == SubSeq(s, 1, Min(n, Len(s)))

\* Python truthiness of an Optional[str] query parameter.
Truthy(p) == p # None /\ p # Some("")

\* Faulty variant: the cursor bound is inclusive.
AllConditionsInclusive(m, from_id, from_user, to_user) ==
  /\ m.message_id >= from_id
  /\ Truthy(from_user) => m.from_username = from_user[1]
  /\ Truthy(to_user) => m.reply_to_username = to_user
\* The WHERE clause get_all_messages builds.
AllConditions(m, from_id, from_user, to_user) ==
  /\ m.message_id > from_id
  /\ Truthy(from_user) => m.from_username = from_user[1]
  /\ Truthy(to_user) => m.reply_to_username = to_user
\* Faulty variant: IS NULL is missing (NULL = '' is not true).
BroadcastConditionEmptyOnly(m, from_id) ==
  /\ m.message_id > from_id
  /\ m.reply_to_username = Some("")
\* m.message_id > $1 AND (m.reply_to_username IS NULL OR m.reply_to_username = '')
BroadcastCondition(m, from_id) ==
  /\ m.message_id > from_id
  /\ (m.reply_to_username = None \/ m.reply_to_username = Some(""))
\* Faulty variant: every addressed message, whoever it is addressed to.
DirectConditionAnyRecipient(m, from_id, username) ==
  /\ m.message_id > from_id
  /\ m.reply_to_username # None
\* m.message_id > $1 AND m.reply_to_username = $2
DirectCondition(m, from_id, username) ==
  /\ m.message_id > from_id
  /\ m.reply_to_username = Some(username)

AllRows(from_id, from_user, to_user, limit) ==
  Limit(OrderById({m \in Joined : AllConditions(m, from_id, from_user, to_user)}), limit)
BroadcastRows(from_id) ==
  OrderById({m \in Joined : BroadcastCondition(m, from_id)})
DirectRows(from_id, username) ==
  OrderById({m \in Joined : DirectCondition(m, from_id, username)})

\* Faulty variant: a recipient filter naming another user is refused, as the
\* dedicated inbox refuses it.
get_all_messages_own_only(c, from_id, from_user, to_user, limit) ==
  /\ pc[c].state = "verified"
  /\ resp' = IF Truthy(to_user) /\ to_user[1] # pc[c].auth_user
               THEN Response("get_all_messages", 403, None)
               ELSE IF limit < 0
                 THEN Response("get_all_messages", 500, None)
                 ELSE Response("get_all_messages", 200,
                               Some(AllRows(from_id, from_user, to_user, limit)))
  /\ pc' = [pc EXCEPT ![c] = Idle]
  /\ UNCHANGED <<users, tokens, messages, seq, now, issued, DEFAULT_USERS_JSON, pool>>
\* GET /messages; a negative LIMIT is an error of the store (500).
get_all_messages(c, from_id, from_user, to_user, limit) ==
  /\ pc[c].state = "verified"
  /\ CanAcquire
  /\ resp' = IF limit < 0
               THEN Response("get_all_messages", 500, None)
               ELSE Response("get_all_messages", 200,
                             Some(AllRows(from_id, from_user, to_user, limit)))
  /\ pool' = Released(Acquired(c), c, limit < 0)
  /\ pc' = [pc EXCEPT ![c] = Idle]
  /\ UNCHANGED <<users, tokens, messages, seq, now, issued, DEFAULT_USERS_JSON>>

\* GET /participants
get_broadcast(c, from_id) ==
  /\ pc[c].state = "verified"
  /\ CanAcquire
  /\ resp' = Response("get_broadcast", 200, Some(BroadcastRows(from_id)))
  /\ pool' = Released(Acquired(c), c, FALSE)
  /\ pc' = [pc EXCEPT ![c] = Idle]
  /\ UNCHANGED <<users, tokens, messages, seq, now, issued, DEFAULT_USERS_JSON>>

\* Faulty variant: the ownership check is missing.
NotOwnInboxIgnored(username, auth_user) == FALSE
\* username != auth_user
NotOwnInbox(username, auth_user) == username # auth_user

\* GET /participants/{username}
get_direct(c, username, from_id) ==
  /\ pc[c].state = "verified"
  /\ IF NotOwnInbox(username, pc[c].auth_user)
       THEN /\ resp' = Response("get_direct", 403,
                                Some("Can only request your own messages"))
            /\ UNCHANGED pool
       ELSE /\ CanAcquire
            /\ resp' = Response("get_direct", 200, Some(DirectRows(from_id, username)))
            /\ pool' = Released(Acquired(c), c, FALSE)
  /\ pc' = [pc EXCEPT ![c] = Idle]
  /\ UNCHANGED <<users, tokens, messages, seq, now, issued, DEFAULT_USERS_JSON>>

\* ------------------------------------------------------------ request inputs
FromIds == {DefaultFromId, 1}
Limits == {-1, 1, DefaultLimit}
SenderFilters == {None, Some("bob")}
RecipientFilters == {Some(""), Some("alice")}
Recipients == {"alice", "carol"}
\* Request bodies (MessageIn): a new message, and a reply to message 1.
Hello == [reply_to_message_id |-> None, message |-> "hi"]
Reply == [reply_to_message_id |-> Some(1), message |-> "re"]

\* ------------------------------------------------- token service and gateway
\* Every operation, with the clock and restarts; one client, and the message
\* store kept to MaxAuthMsgs messages read with the default cursor and limit.
Next ==
  \/ \E cfg \in Configs : lifespan(cfg)
  \/ Tick
  \/ \E h \in Headers : verify_token("c1", h)
  \/ \E u \in Usernames, w \in Codewords : authenticate("c1", u, w)
  \/ seq < MaxAuthMsgs /\ send_broadcast("c1", Hello)
  \/ seq < MaxAuthMsgs /\ send_direct("c1", "alice", Reply)
  \/ Commit("c1")
  \/ \E tu \in {None, Some("alice")} :
       get_all_messages("c1", DefaultFromId, None, tu, DefaultLimit)
  \/ get_broadcast("c1", DefaultFromId)
  \/ \E u \in Usernames : get_direct("c1", u, DefaultFromId)

Spec == Init /\ [][Next]_vars

\* ------------------------------------------------------------ message store
\* The state after alice and bob have each obtained a token at time 0 (a
\* state Spec reaches by two authenticate steps).
InitStore ==
  /\ users = BootstrapFrom(EmptyUsers, ConfigA, 1)
  /\ tokens = [t \in TokenIds |->
                 [username |-> IF t = "t1" THEN "alice" ELSE "bob",
                  expires |-> Expiry(0)]]
  /\ issued = [t \in TokenIds |->
                 [username |-> IF t = "t1" THEN "alice" ELSE "bob",
                  at |-> 0, expires |-> Expiry(0)]]
  /\ messages = <<>>
  /\ seq = 0
  /\ now = 0
  /\ pc = [c \in Clients |-> Idle]
  /\ resp = NoResponse
  /\ DEFAULT_USERS_JSON = ConfigA
  /\ pool = create_pool(DefaultPoolSize)

\* Two clients send and read concurrently, and the process restarts with its
\* USERS list; the clock stands still.
NextStore ==
  \/ lifespan(DEFAULT_USERS_JSON)
  \/ \E c \in Clients, h \in Headers : verify_token(c, h)
  \/ \E c \in Clients : seq < MaxMsgs /\ send_broadcast(c, Hello)
  \/ \E c \in Clients, u \in Recipients : seq < MaxMsgs /\ send_direct(c, u, Hello)
  \/ \E c \in Clients : Commit(c)
  \/ \E c \in Clients, i \in FromIds, fu \in SenderFilters, tu \in RecipientFilters,
        l \in Limits : get_all_messages(c, i, fu, tu, l)
  \/ \E c \in Clients, i \in FromIds : get_broadcast(c, i)
  \/ \E c \in Clients, u \in Usernames, i \in FromIds : get_direct(c, u, i)

SpecStore == InitStore /\ [][NextStore]_vars

\* -------------------------------------------------------------------- inbox
\* One more message than the default limit of GET /messages.
InboxSize == DefaultLimit + 1

\* alice, holding token t1, sends herself up to InboxSize direct messages and
\* reads her inbox through GET /participants/alice and through GET /messages.
NextInbox ==
  \/ verify_token("c1", Some([scheme |-> "Bearer ", cred |-> "t1"]))
  \/ seq < InboxSize /\ send_direct("c1", "alice", Hello)
  \/ Commit("c1")
  \/ get_direct("c1", "alice", DefaultFromId)
  \/ get_all_messages("c1", DefaultFromId, None, Some("alice"), DefaultLimit)

SpecInbox == InitStore /\ [][NextInbox]_vars

\* --------------------------------------------------------------------- pool
\* alice holds token t1; the pool has as few as one connection.
InitPool ==
  /\ users = BootstrapFrom(EmptyUsers, ConfigA, 1)
  /\ tokens = [t \in {"t1"} |-> [username |-> "alice", expires |-> Expiry(0)]]
  /\ issued = [t \in {"t1"} |-> [username |-> "alice", at |-> 0, expires |-> Expiry(0)]]
  /\ messages = <<>>
  /\ seq = 0
  /\ now = 0
  /\ pc = [c \in Clients |-> Idle]
  /\ resp = NoResponse
  /\ DEFAULT_USERS_JSON = ConfigA
  /\ \E n \in 1..MaxPool : pool = create_pool(n)

\* The handler of a verified request, on a route that takes a connection.
Handle(c) ==
  \/ seq < MaxMsgs /\ send_broadcast(c, Hello)
  \/ \E l \in {-1, DefaultLimit} : get_all_messages(c, DefaultFromId, None, None, l)
  \/ get_broadcast(c, DefaultFromId)
  \/ get_direct(c, "alice", DefaultFromId)

\* Two clients' requests on every exit path: 401 before and after the token
\* lookup, 403 of issue and of the inbox, a store error, and success.
NextPool ==
  \/ \E c \in Clients :
       \E h \in {None, Some([scheme |-> "Bearer ", cred |-> "t1"]),
                  Some([scheme |-> "Bearer ", cred |-> UnknownToken])} :
         verify_token(c, h)
  \/ \E c \in Clients, w \in {"x", "y"} : authenticate(c, "alice", w)
  \/ \E c \in Clients : Handle(c)
  \/ \E c \in Clients : get_direct(c, "bob", DefaultFromId)
  \/ \E c \in Clients : Commit(c)

\* The event loop runs every task that can run (an INSERT under way
\* completes), and pool.acquire() serves its waiters in turn: a handler that
\* waits for a connection gets one if connections keep coming free.
FairPool ==
  \A c \in Clients : WF_vars(Commit(c)) /\ SF_vars(Handle(c))

SpecPool == InitPool /\ [][NextPool]_vars /\ FairPool

\* ---------------------------------------------------------------- bootstrap
\* Entries of a USERS list: well-formed ones, one without "username" and one
\* without "codeword".
Entries ==
  {Entry(Some("alice"), Some("x"), None), Entry(Some("alice"), Some("z"), Some(FALSE)),
   Entry(Some("carol"), Some("x"), Some(FALSE)), Entry(Some("carol"), Some("z"), None),
   Entry(None, Some("x"), None), Entry(Some("bob"), None, Some(FALSE))}
BootConfigs == UNION {[1..n -> Entries] : n \in 0..MaxEntries}

\* The database before the first start: the tables are created empty.
InitBoot ==
  /\ users = EmptyUsers
  /\ tokens = EmptyTokens
  /\ messages = <<>>
  /\ seq = 0
  /\ now = 0
  /\ pc = [c \in Clients |-> Idle]
  /\ resp = NoResponse
  /\ issued = EmptyIssued
  /\ DEFAULT_USERS_JSON = <<>>
  /\ pool = create_pool(DefaultPoolSize)

\* The process is started, and restarted, with any USERS list.
NextBoot == \E cfg \in BootConfigs : lifespan(cfg)

SpecBoot == InitBoot /\ [][NextBoot]_vars

\* ================================================================== claims
\* What a caller presents: a Bearer header carrying token t.
Bearer(t) == Some([scheme |-> "Bearer ", cred |-> t])
\* A header that is no Bearer header at all (absent, empty, other scheme).
Malformed(h) == h = None \/ h[1].scheme # "Bearer "

\* C1: a token issued to a user validates to that same username at any time
\* before its expiry, whatever happened in between, and is rejected with 401
\* once its expiry time has passed; issue with the stored codeword succeeds.
C1_IssueThenValidate ==
  [][/\ \A c \in Clients, t \in DOMAIN issued :
          verify_token(c, Bearer(t)) =>
            /\ now < issued[t].expires =>
                 /\ pc'[c].state = "verified"
                 /\ pc'[c].auth_user = issued[t].username
            /\ now > issued[t].expires =>
                 /\ resp'.status = 401
                 /\ pc'[c].state = "idle"
     /\ \A c \in Clients, u \in DOMAIN users :
          authenticate(c, u, users[u].codeword) =>
            /\ resp'.status = 200
            /\ resp'.body[1].token \in DOMAIN tokens' \ DOMAIN tokens
            /\ tokens'[resp'.body[1].token].username = u]_vars

\* A token validated before its expiry after a restart changed the user's
\* codeword and a message was stored.
C1_Witness ==
  \E c \in Clients, t \in DOMAIN issued :
    /\ pc[c].state = "verified" /\ pc[c].token = t
    /\ pc[c].auth_user = issued[t].username
    /\ now > issued[t].at /\ now <= issued[t].expires
    /\ users[issued[t].username].codeword = "z"
    /\ Len(messages) > 0

\* C2: expires is the issue time plus one day, and a stored token is accepted
\* iff now < expires: rejected at every instant now >= expires, the instant
\* now = expires included.
C2_ValidIffBeforeExpiry ==
  [][\A c \in Clients, t \in DOMAIN issued :
       verify_token(c, Bearer(t)) =>
         /\ t \in DOMAIN tokens
         /\ tokens[t].expires = issued[t].at + TokenTTL
         /\ (pc'[c].state = "verified") <=> (now < tokens[t].expires)
         /\ (resp'.status = 401) <=> (now >= tokens[t].expires)]_vars

\* C3: issue with an unknown username or a codeword other than the stored one
\* fails with 403 and leaves the three tables as they were.
C3_InvalidCredentials ==
  [][\A c \in Clients, u \in Usernames, w \in Codewords :
       ((u \notin DOMAIN users \/ users[u].codeword # w) /\ authenticate(c, u, w)) =>
         /\ resp'.status = 403
         /\ UNCHANGED <<users, tokens, messages>>]_vars

\* A 403 answered to POST /auth while a token of that user already exists.
C3_Witness ==
  /\ resp.op = "authenticate" /\ resp.status = 403
  /\ DOMAIN tokens # {}

\* A header that must not authenticate: no Bearer header, a token never
\* issued, or a token whose expiry has passed.
Unauthenticated(h) ==
  \/ Malformed(h)
  \/ h[1].cred \notin DOMAIN issued
  \/ now > issued[h[1].cred].expires

\* C4: a protected request whose Authorization header is missing or
\* malformed, or whose token is unknown or past its expiry, is answered 401
\* and changes nothing; the handlers act only for a request that passed
\* verify_token.
C4_Unauthenticated ==
  [][/\ \A c \in Clients, h \in Headers :
          (verify_token(c, h) /\ Unauthenticated(h)) =>
            /\ resp'.status = 401
            /\ pc'[c].state = "idle"
            /\ UNCHANGED <<users, tokens, messages, seq>>
     /\ (messages' # messages \/ seq' # seq) =>
          \E c \in Clients : pc[c].state # "idle" /\ pc[c].token \in DOMAIN issued
     /\ \A c \in Clients :
          (pc'[c].state = "verified" /\ pc[c].state = "idle") =>
            /\ pc'[c].token \in DOMAIN issued
            /\ now <= issued[pc'[c].token].expires]_vars

\* An expired token was refused while messages are stored.
C4_Witness ==
  /\ resp = Response("verify_token", 401, Some("Invalid or expired token"))
  /\ \A t \in TokenIds : t \in DOMAIN issued /\ now > issued[t].expires
  /\ Len(messages) > 0

\* C9: the direct inbox of username u is read only by a request whose token
\* is owned by u; a valid token of another user gets 403 and no message; a
\* request that does not authenticate gets 401 before the username is looked at.
C9_InboxOwnership ==
  [][/\ \A c \in Clients, u \in Usernames, i \in FromIds :
          get_direct(c, u, i) =>
            /\ pc[c].state = "verified"
            /\ pc[c].token \in DOMAIN issued
            /\ IF u = issued[pc[c].token].username
                 THEN /\ resp'.status = 200
                      /\ \A k \in 1..Len(resp'.body[1]) :
                           resp'.body[1][k].reply_to_username = Some(u)
                 ELSE /\ resp'.status = 403
                      /\ resp'.body = Some("Can only request your own messages")
     /\ \A c \in Clients, h \in Headers :
          (verify_token(c, h) /\ Unauthenticated(h)) =>
            resp'.status = 401 /\ pc'[c].state = "idle"]_vars

\* bob's valid token was refused alice's inbox, which holds a message.
C9_Witness ==
  /\ resp.op = "get_direct" /\ resp.status = 403
  /\ \E k \in 1..Len(messages) : messages[k].reply_to_username = Some("alice")
  /\ \E t \in DOMAIN issued : issued[t].username = "bob" /\ now <= issued[t].expires

\* C10: the from_username of every message is the owner of the token of the
\* send request that stored it, whatever the request's other inputs; rows
\* enter the table only through such a request.
C10_NoSenderSpoofing ==
  [][/\ \A c \in Clients :
          Commit(c) =>
            /\ pc[c].token \in DOMAIN issued
            /\ Len(messages') = Len(messages) + 1
            /\ messages'[Len(messages')].from_username = issued[pc[c].token].username
     /\ messages' # messages => \E c \in Clients : Commit(c)
     /\ \A k \in 1..Len(messages) :
          k <= Len(messages') /\ messages'[k].from_username = messages[k].from_username]_vars

\* A direct message to alice that bob's request stored, while alice holds a
\* token too.
C10_Witness ==
  /\ \E k \in 1..Len(messages) :
       /\ messages[k].from_username = "bob"
       /\ messages[k].reply_to_username = Some("alice")
  /\ \E t \in DOMAIN issued : issued[t].username = "alice"

\* Ids handed out so far: of the rows stored and of the rows being inserted.
Inserting == {c \in Clients : pc[c].state = "inserting"}
AssignedIds ==
  {messages[k].message_id : k \in 1..Len(messages)}
    \cup {pc[c].row[1].message_id : c \in Inserting}

\* C5: the ids of the rows stored and of the rows being inserted are pairwise
\* distinct, also for inserts in flight together; an append is given an id
\* greater than every id handed out before it, and stores its row under it.
C5_DistinctIncreasingIds ==
  [][/\ \A j, k \in 1..Len(messages') :
          j # k => messages'[j].message_id # messages'[k].message_id
     /\ \A c, d \in Clients :
          (c # d /\ pc'[c].state = "inserting" /\ pc'[d].state = "inserting") =>
            pc'[c].row[1].message_id # pc'[d].row[1].message_id
     /\ \A c \in Clients, k \in 1..Len(messages') :
          pc'[c].state = "inserting" =>
            pc'[c].row[1].message_id # messages'[k].message_id
     /\ \A c \in Clients :
          (pc[c].state = "verified" /\ pc'[c].state = "inserting") =>
            \A id \in AssignedIds : pc'[c].row[1].message_id > id
     /\ \A c \in Clients :
          Commit(c) =>
            messages'[Len(messages')].message_id = pc[c].row[1].message_id]_vars

\* Two inserts in flight together, by different senders.
C5_Witness ==
  /\ \A c \in Clients : pc[c].state = "inserting"
  /\ pc["c1"].auth_user # pc["c2"].auth_user

\* A filter parameter counts as given when it is a non-empty string.
Given(p) == p # None /\ p # Some("")
QuerySenders == {None, Some(""), Some("bob")}
QueryRecipients == {None, Some("alice"), Some("carol")}
QueryLimits == {0, 1, DefaultLimit}
StoredMatches(from_id, from_user, to_user) ==
  {m \in Range(messages) :
     /\ m.message_id > from_id
     /\ Given(from_user) => m.from_username = from_user[1]
     /\ Given(to_user) => m.reply_to_username = to_user}

\* C6: in every store state, the generic query with min_id, sender filter,
\* recipient filter and a limit l >= 0 (DefaultLimit when none is supplied)
\* returns at most l messages, each stored with message_id > min_id and
\* matching the filters given, in strictly ascending message_id order, and
\* they are the first l matching messages in id order.
C6_GenericQuery ==
  \A i \in FromIds, fu \in QuerySenders, tu \in QueryRecipients, l \in QueryLimits :
    LET rows == AllRows(i, fu, tu, l)
        matching == StoredMatches(i, fu, tu)
    IN  /\ Len(rows) <= l
        /\ \A k \in 1..Len(rows) :
             \E m \in matching :
               /\ m.message_id = rows[k].message_id
               /\ m.from_username = rows[k].from_username
               /\ m.reply_to_username = rows[k].reply_to_username
               /\ m.message = rows[k].message
        /\ \A k \in 1..(Len(rows) - 1) :
             rows[k].message_id < rows[k + 1].message_id
        /\ \A m \in matching :
             \/ \E k \in 1..Len(rows) : rows[k].message_id = m.message_id
             \/ /\ Len(rows) = l
                /\ \A k \in 1..Len(rows) : rows[k].message_id < m.message_id

\* A query answered with the first of two matching messages that were stored
\* out of id order.
C6_Witness ==
  /\ resp.op = "get_all_messages" /\ resp.status = 200
  /\ Len(messages) = 2
  /\ messages[1].message_id > messages[2].message_id
  /\ Len(resp.body[1]) = 1
  /\ resp.body[1][1].message_id = 1

Returned(rows, m) == \E k \in 1..Len(rows) : rows[k].message_id = m.message_id
MinIds == 0..seq
IsBroadcast(m) == m.reply_to_username = None \/ m.reply_to_username = Some("")

\* C7: a stored message whose reply_to_username is null or empty is returned
\* by query_broadcast(min_id) for every min_id below its message_id, and by
\* query_direct(min_id, user) for no user and no min_id.
C7_BroadcastNeverDirect ==
  \A k \in 1..Len(messages) :
    IsBroadcast(messages[k]) =>
      /\ \A i \in MinIds :
           i < messages[k].message_id => Returned(BroadcastRows(i), messages[k])
      /\ \A i \in MinIds, u \in Usernames :
           ~Returned(DirectRows(i, u), messages[k])

\* The broadcast feed answered with a broadcast while an addressed message
\* is stored too.
C7_Witness ==
  /\ resp.op = "get_broadcast" /\ resp.status = 200
  /\ Len(resp.body[1]) = 1
  /\ \E k \in 1..Len(messages) : ~IsBroadcast(messages[k])

\* C8: a stored message addressed to U is returned by query_direct(min_id, U)
\* for every min_id below its message_id, by query_direct(min_id, V) for no
\* other V, and by query_broadcast for no min_id, whether U is registered or not.
C8_DirectOnlyToRecipient ==
  \A k \in 1..Len(messages), U \in Usernames :
    messages[k].reply_to_username = Some(U) =>
      /\ \A i \in MinIds :
           i < messages[k].message_id => Returned(DirectRows(i, U), messages[k])
      /\ \A i \in MinIds, V \in Usernames \ {U} :
           ~Returned(DirectRows(i, V), messages[k])
      /\ \A i \in MinIds : ~Returned(BroadcastRows(i), messages[k])

\* alice's inbox answered with the message addressed to her while a message
\* to the unregistered carol is stored too.
C8_Witness ==
  /\ resp.op = "get_direct" /\ resp.status = 200
  /\ Len(resp.body[1]) = 1
  /\ \E k \in 1..Len(messages) : messages[k].reply_to_username = Some("carol")
  /\ "carol" \notin DOMAIN users

\* ------------------------------------------------------------------- C11
\* The stored messages addressed to U, as ids.
AddressedTo(U) ==
  {messages[k].message_id :
     k \in {j \in 1..Len(messages) : messages[j].reply_to_username = Some(U)}}
ReturnedIds(rows) == {rows[k].message_id : k \in 1..Len(rows)}

\* C11: the generic feed called with to_user = U answers 200 with exactly the
\* stored messages addressed to U (the store holding no more than the limit),
\* whoever the authenticated caller is, so also a caller other than U, while
\* the dedicated inbox read of U by a caller other than U is answered 403.
C11_GenericFeedUnrestricted ==
  [][/\ \A c \in Clients, U \in Usernames :
          get_all_messages(c, DefaultFromId, None, Some(U), DefaultLimit) =>
            /\ resp'.status = 200
            /\ Len(messages) <= DefaultLimit =>
                 ReturnedIds(resp'.body[1]) = AddressedTo(U)
     /\ \A c \in Clients, U \in Usernames :
          (get_direct(c, U, DefaultFromId) /\ pc[c].auth_user # U) =>
            resp'.status = 403]_vars

\* The feed answered bob, the only holder of a token, with a message
\* addressed to alice.
C11_Witness ==
  /\ resp.op = "get_all_messages" /\ resp.status = 200
  /\ \A t \in DOMAIN issued : issued[t].username = "bob"
  /\ \E k \in 1..Len(resp.body[1]) :
       resp.body[1][k].reply_to_username = Some("alice")

\* ------------------------------------------------------------------- C12
WellFormed(entry) == entry.username # None /\ entry.codeword # None

\* C12: after bootstrap over the configured list, every well-formed entry of
\* the list is a user of the User Store, wherever the malformed entries sit
\* in the list.
C12_MalformedEntrySkipped ==
  \A i \in 1..Len(DEFAULT_USERS_JSON) :
    WellFormed(DEFAULT_USERS_JSON[i]) =>
      DEFAULT_USERS_JSON[i].username[1] \in DOMAIN users

\* ------------------------------------------------------------------- C13
\* C13: a bootstrap never removes a user and never alters the is_human of a
\* user already stored; running it again with the same list changes nothing;
\* and for a list of one well-formed entry (u, w, h): if u is absent, u is
\* stored with w and h (TRUE when the entry has no is_human); if u is stored
\* with another codeword, only its codeword becomes w; if u is stored with w,
\* nothing changes.  No other user's row is touched.
C13_UpsertIdempotent ==
  [][\A cfg \in BootConfigs :
       lifespan(cfg) =>
         /\ DOMAIN users \subseteq DOMAIN users'
         /\ \A u \in DOMAIN users : users'[u].is_human = users[u].is_human
         /\ BootstrapFrom(users', cfg, 1) = users'
         /\ (Len(cfg) = 1 /\ WellFormed(cfg[1])) =>
              LET u == cfg[1].username[1]
                  w == cfg[1].codeword[1]
                  h == cfg[1].is_human
              IN  /\ DOMAIN users' = DOMAIN users \cup {u}
                  /\ \A v \in DOMAIN users \ {u} : users'[v] = users[v]
                  /\ users'[u].codeword = w
                  /\ u \notin DOMAIN users =>
                       users'[u].is_human = (IF h = None THEN TRUE ELSE h[1])
                  /\ (u \in DOMAIN users /\ users[u].codeword = w) =>
                       users' = users]_vars

\* A restart with alice's entry carrying another codeword and is_human false:
\* the codeword is the entry's, is_human is still the stored TRUE.
C13_Witness ==
  /\ DEFAULT_USERS_JSON = <<Entry(Some("alice"), Some("z"), Some(FALSE))>>
  /\ "alice" \in DOMAIN users
  /\ users["alice"] = [codeword |-> "z", is_human |-> TRUE]

\* ------------------------------------------------------------------- C14
\* The page a polling reader was answered last, and the cursor it moves to:
\* the largest message_id of the page.
IsPage == resp.op \in {"get_broadcast", "get_direct"} /\ resp.status = 200
Cursor == resp.body[1][Len(resp.body[1])].message_id
\* The row belongs to the feed the page was read from.
SameFeed(row) ==
  /\ Len(resp.body[1]) > 0
  /\ IF IsBroadcast(row)
       THEN IsBroadcast(resp.body[1][1])
       ELSE resp.body[1][1].reply_to_username = row.reply_to_username

\* C14: with concurrent writers, rows become visible in the order of their
\* message_ids: a row that becomes visible has a message_id above that of
\* every row visible before it, and so above the cursor of a reader that was
\* just answered a page of the row's feed (its next poll, with min_id = that
\* cursor, returns the row: no message is missed).
C14_PollingNeverMisses ==
  [][\A c \in Clients :
       Commit(c) =>
         /\ \A k \in 1..Len(messages) :
              messages[k].message_id < pc[c].row[1].message_id
         /\ (IsPage /\ SameFeed(pc[c].row[1])) =>
              Cursor < pc[c].row[1].message_id]_vars

\* ------------------------------------------------------------------- C15
\* C15: in every store state, for every min_id and every username, the
\* direct-inbox query returns the same sequence of messages as the generic
\* query with from_id = min_id, to_user = username, no sender filter and the
\* default limit, also when more than DefaultLimit messages are addressed to
\* that user.
C15_DirectEqualsGeneric ==
  \A i \in FromIds, u \in Usernames :
    DirectRows(i, u) = AllRows(i, None, Some(u), DefaultLimit)

\* ------------------------------------------------------------------- C16
\* C16: every stored message is stored unchanged, in all its fields, after
\* every step, and none is removed; a row being inserted is stored exactly as
\* it was inserted; and a message inserted later (its INSERT draws its id
\* later) has a message_id greater than that of every message inserted
\* before it, stored or still in flight.
C16_AppendOnly ==
  [][/\ \A k \in 1..Len(messages) :
          \E j \in 1..Len(messages') : messages'[j] = messages[k]
     /\ Len(messages') >= Len(messages)
     /\ \A c \in Clients :
          pc[c].state = "inserting" =>
            \/ pc'[c].state = "inserting" /\ pc'[c].row = pc[c].row
            \/ /\ pc'[c].state = "idle"
               /\ \E j \in 1..Len(messages') : messages'[j] = pc[c].row[1]
               /\ Len(messages') = Len(messages) + 1
     /\ \A c \in Clients :
          (pc[c].state = "verified" /\ pc'[c].state = "inserting") =>
            /\ \A k \in 1..Len(messages) :
                 messages[k].message_id < pc'[c].row[1].message_id
            /\ \A d \in Inserting :
                 pc[d].row[1].message_id < pc'[c].row[1].message_id]_vars

\* Two messages of one sender are stored and no request is in flight after a
\* restart.
C16_Witness ==
  /\ resp = NoResponse
  /\ Len(messages) = 2
  /\ messages[1].from_username = messages[2].from_username
  /\ messages[1].message_id < messages[2].message_id
  /\ \A c \in Clients : pc[c].state = "idle"

\* ------------------------------------------------------------------- C17
\* A step of validate (answered 401, or the request verified) or of one of the
\* three read handlers (answered under its own name).
ReadStep ==
  \/ resp'.op \in {"verify_token", "get_all_messages", "get_broadcast", "get_direct"}
  \/ \E c \in Clients : pc[c].state = "idle" /\ pc'[c].state = "verified"

\* C17: every step leaves every stored token stored with its username and
\* expiry unchanged (no renewal, no deletion); a successful issue adds one
\* token and touches no other token, of the same user or another; validate
\* and the three read operations leave users, tokens and messages unchanged.
C17_TokensNeverUpdated ==
  [][/\ \A t \in DOMAIN tokens :
          t \in DOMAIN tokens' /\ tokens'[t] = tokens[t]
     /\ DOMAIN tokens' # DOMAIN tokens =>
          /\ resp'.op = "authenticate" /\ resp'.status = 200
          /\ DOMAIN tokens' = DOMAIN tokens \cup {resp'.body[1].token}
          /\ UNCHANGED <<users, messages>>
     /\ ReadStep => UNCHANGED <<users, tokens, messages>>]_vars

\* A user's earlier token was validated after the same user was issued a
\* later one.
C17_Witness ==
  \E c \in Clients, t \in DOMAIN tokens, s \in DOMAIN tokens :
    /\ pc[c].state = "verified" /\ pc[c].token = t
    /\ tokens[s].username = tokens[t].username
    /\ tokens[s].expires > tokens[t].expires
    /\ tokens[t].expires = issued[t].expires

\* ------------------------------------------------------------------- C19
\* The row of the page that carries message m, with the sender's flag.
ReturnedWithFlag(rows, m) ==
  \E k \in 1..Len(rows) :
    /\ rows[k].message_id = m.message_id
    /\ rows[k].from_username = m.from_username
    /\ rows[k].from_is_human = users[m.from_username].is_human

\* C19: in every reachable state the username of every token and the
\* from_username of every message, stored or being inserted, is a user of the
\* User Store; and every stored message is returned, with its sender's
\* is_human flag, by each read whose id and addressing filters it passes
\* (the generic feed within its limit): the join drops none.
C19_ReferentialInvariant ==
  /\ \A t \in DOMAIN tokens : tokens[t].username \in DOMAIN users
  /\ \A c \in Inserting : pc[c].row[1].from_username \in DOMAIN users
  /\ \A k \in 1..Len(messages) :
       LET m == messages[k]
       IN  /\ m.from_username \in DOMAIN users
           /\ \A i \in 0..(m.message_id - 1) :
                /\ Len(messages) <= DefaultLimit =>
                     ReturnedWithFlag(AllRows(i, None, None, DefaultLimit), m)
                /\ IsBroadcast(m) => ReturnedWithFlag(BroadcastRows(i), m)
                /\ ~IsBroadcast(m) =>
                     ReturnedWithFlag(DirectRows(i, m.reply_to_username[1]), m)

\* The broadcast feed answered with bob's message and bob's flag after a
\* restart changed the user list.
C19_Witness ==
  /\ resp.op = "get_broadcast" /\ resp.status = 200
  /\ Len(resp.body[1]) = 1
  /\ resp.body[1][1].from_username = "bob"
  /\ resp.body[1][1].from_is_human = FALSE
  /\ DEFAULT_USERS_JSON = ConfigB

\* ------------------------------------------------------------------- C20
\* C20: a restart whose bootstrap changes the codeword of user u leaves the
\* token table as it was: every token of u, issued under an earlier codeword,
\* is accepted or rejected after the restart exactly as before it, for the
\* same username; after it the old codeword is refused for u and the new one
\* accepted.  At every time, a token that was issued validates to the user it
\* was issued to while its expiry is ahead, whatever the user's codeword is
\* by then, and issue succeeds exactly with the codeword stored at that time.
C20_CodewordChangeKeepsTokens ==
  [][/\ \A u \in DOMAIN users :
          users'[u].codeword # users[u].codeword =>
            /\ lifespan(DEFAULT_USERS_JSON')
            /\ tokens' = tokens
            /\ \A t \in DOMAIN tokens :
                 tokens[t].username = u =>
                   /\ TokenRejected(t, now)' = TokenRejected(t, now)
                   /\ TokenOwner(t)' = u
            /\ \A w \in Codewords :
                 /\ w = users[u].codeword => CredentialsRejected(u, w)'
                 /\ w = users'[u].codeword => ~CredentialsRejected(u, w)'
     /\ \A c \in Clients, t \in DOMAIN issued :
          (/\ verify_token(c, Bearer(t))
           /\ now < issued[t].expires) =>
            pc'[c].state = "verified" /\ pc'[c].auth_user = issued[t].username
     /\ \A c \in Clients, w \in Codewords :
          authenticate(c, "alice", w) =>
            (resp'.status = 200) = (w = users["alice"].codeword)]_vars

\* alice's token validated, at the time it was issued, while the second user
\* list, which changes alice's codeword, is in force.
C20_Witness ==
  \E c \in Clients, t \in DOMAIN issued :
    /\ pc[c].state = "verified" /\ pc[c].token = t
    /\ issued[t].username = "alice"
    /\ DEFAULT_USERS_JSON = ConfigB
    /\ users["alice"].codeword = "z"
    /\ now = issued[t].at
    /\ Len(messages) = 0

\* ------------------------------------------------------------------- C18
\* Connections checked out, over all requests.
RECURSIVE CheckedOut(_)
CheckedOut(S) ==
  IF S = {} THEN 0
  ELSE LET c == CHOOSE d \in S : TRUE IN pool.out[c] + CheckedOut(S \ {c})

\* No connection is lost, a request holds at most one connection and holds
\* it only while its handler is inside its `async with` block, and when no
\* request is in flight none is checked out.
PoolInv ==
  /\ pool.free + CheckedOut(Clients) = pool.size
  /\ pool.free >= 0
  /\ \A c \in Clients :
       /\ pool.out[c] \in {0, 1}
       /\ pool.out[c] = 1 <=> pc[c].state = "inserting"
  /\ (\A c \in Clients : pc[c].state = "idle") =>
       (CheckedOut(Clients) = 0 /\ pool.free = pool.size)

\* C18: every connection a request acquires is released on every exit path
\* (401, 403, store error, success): PoolInv holds in every state; and with a
\* pool of one connection or more and requests of two clients, a connection
\* is free again and again and no verified request waits for one forever.
C18_ConnectionsReleased ==
  /\ []PoolInv
  /\ []<>(pool.free > 0)
  /\ \A c \in Clients :
       (pc[c].state = "verified") ~> (pc[c].state # "verified")

\* One request holds the only connection while the other, verified, waits
\* for it, after a request was answered 500 inside its `async with` block.
C18_Witness ==
  /\ pool.size = 1 /\ pool.free = 0
  /\ pc["c1"].state = "inserting"
  /\ pc["c2"].state = "verified"
  /\ \E t \in DOMAIN tokens : t # "t1"

====
